---- MODULE Spec2Model ----
(***************************************************************************)
(* Model of the output-artifact location resolver and directory lifecycle  *)
(* (tfx/orchestration/portable/outputs_utils.py) and of the filesystem     *)
(* plugin registry (tfx/dsl/io/filesystem_registry.py).                    *)
(*                                                                         *)
(* Python strings are sequences of one-character strings, so that          *)
(* os.path.join, os.path.dirname, str(int), str.format and the registry's  *)
(* regular expression are computed character by character.                 *)
(***************************************************************************)
EXTENDS Integers, Sequences, FiniteSets, TLC

VARIABLES
  self,         \* the OutputsResolver object: the fields __init__ sets
  storage,      \* the filesystem behind tf.io.gfile: [dirs, files]
  pre,          \* the storage as it was when the last call started
  last,         \* the last call: operation, argument, outcome
  returned,     \* execution id -> the output dicts generate_output_artifacts returned for it
  stateful,     \* the paths get_stateful_working_directory has returned
  registry,     \* the FilesystemRegistry object: its two dicts
  lookup,       \* the last registry call and its outcome
  registration_lock,  \* the FilesystemRegistry object's lock: free, or its holder
  threads       \* the threads calling into the registry: call, position, locals

vars ==
  <<self, storage, pre, last, returned, stateful, registry, lookup, registration_lock, threads>>

outputVars == <<self, storage, pre, last, returned, stateful>>
registryVars == <<registry, lookup, registration_lock, threads>>

----------------------------------------------------------------------------
(* Strings *)

Sep == "/"
Digit == <<"0", "1", "2", "3", "4", "5", "6", "7", "8", "9">>

\* str(n) of a Python int: its decimal digits, with a sign when negative.
RECURSIVE str(_)
str(n) ==
  IF n < 0 THEN <<"-">> \o str(-n)
  ELSE IF n < 10 THEN <<Digit[n + 1]>>
  ELSE str(n \div 10) \o <<Digit[(n % 10) + 1]>>

startswith(s, t) == Len(s) >= Len(t) /\ SubSeq(s, 1, Len(t)) = t
endswith(s, t) == Len(s) >= Len(t) /\ SubSeq(s, Len(s) - Len(t) + 1, Len(s)) = t

\* os.path.join(a, b) of posixpath: an absolute b discards a; a separator is
\* inserted unless a is empty or already ends with one.
join2_concat(a, b) == a \o b
join2(a, b) ==
  IF startswith(b, <<Sep>>) THEN b
  ELSE IF a = <<>> \/ endswith(a, <<Sep>>) THEN a \o b
  ELSE a \o <<Sep>> \o b

join3(a, b, c) == join2(join2(a, b), c)

\* The index of the last separator of p at or before i, 0 when there is none
\* (str.rfind + 1).
RECURSIVE rfindSepFrom(_, _)
rfindSepFrom(p, i) == IF i = 0 \/ p[i] = Sep THEN i ELSE rfindSepFrom(p, i - 1)
rfindSep(p) == rfindSepFrom(p, Len(p))

RECURSIVE rstripSep(_)
rstripSep(p) ==
  IF p # <<>> /\ p[Len(p)] = Sep THEN rstripSep(SubSeq(p, 1, Len(p) - 1)) ELSE p

\* os.path.dirname(p) of posixpath: the head up to the last separator, its
\* trailing separators stripped unless the head is made of separators only.
dirname(p) ==
  LET head == SubSeq(p, 1, rfindSep(p))
  IN  IF head # <<>> /\ (\E i \in 1..Len(head) : head[i] # Sep)
      THEN rstripSep(head) ELSE head

\* '{0}:{1}:{2}:{3}:{4}'.format(a, b, c, d, n)
format5(a, b, c, d, n) ==
  a \o <<":">> \o b \o <<":">> \o c \o <<":">> \o d \o <<":">> \o str(n)

----------------------------------------------------------------------------
(* Module constants of outputs_utils.py *)

EXECUTION_PREFIX == <<"e", "x", "e", "c", "u", "t", "i", "o", "n", "_">>
STATEFUL_WORKING_DIR ==
  <<"s", "t", "a", "t", "e", "f", "u", "l", "_", "w", "o", "r", "k", "i", "n", "g", "_", "d", "i", "r">>
EXECUTION_OUTPUT_FILE ==
  <<"e", "x", "e", "c", "u", "t", "o", "r", "_", "o", "u", "t", "p", "u", "t", ".", "p", "b">>
VALUE_ARTIFACT_FILE_NAME == <<"v", "a", "l", "u", "e">>

----------------------------------------------------------------------------
(* The node execution contexts and execution identifiers of the checked runs *)

RootGcs == <<"g", "s", ":", "/", "/", "b", "u", "c", "k", "e", "t", "/", "p", "i", "p", "e">>
RootLocal == <<"/", "t", "m", "p", "/", "p">>
NodeTrainer == <<"T", "r", "a", "i", "n", "e", "r">>
RunId1 == <<"r", "u", "n", "1">>
PipelineId1 == <<"p", "i", "p", "e", "1">>
KeyModel == <<"m", "o", "d", "e", "l">>
KeyAccuracy == <<"a", "c", "c", "u", "r", "a", "c", "y">>

\* An output declared under the name the executor output record has.
KeyRecord ==
  <<"e", "x", "e", "c", "u", "t", "o", "r", "_", "o", "u", "t", "p", "u", "t", ".", "p", "b">>

Roots == {RootGcs, RootLocal}

\* An output spec is (key, artifact type); the type decides whether the
\* deserialized artifact is a ValueArtifact.  A node's outputs are listed in
\* the order the proto map iterates them; keys are unique.  Output keys, node
\* ids and run ids are plain names (no separator in them), and a pipeline root
\* does not end with a separator.
Kinds == {"value", "reference"}
OutputSpecs ==
  { <<>> } \cup
  { <<[key |-> KeyModel, type |-> k]>> : k \in Kinds } \cup
  { <<[key |-> KeyModel, type |-> k1], [key |-> KeyAccuracy, type |-> k2]>> :
      k1 \in Kinds, k2 \in Kinds } \cup
  { <<[key |-> KeyAccuracy, type |-> "value"], [key |-> KeyModel, type |-> "reference"]>> } \cup
  { <<[key |-> KeyRecord, type |-> "reference"], [key |-> KeyModel, type |-> "value"]>> }

\* The outputs of the node whose storage lifecycle is followed.
LifecycleOutputSpecs ==
  { <<[key |-> KeyModel, type |-> "value"]>>,
    <<[key |-> KeyModel, type |-> "reference"], [key |-> KeyAccuracy, type |-> "value"]>>,
    <<[key |-> KeyAccuracy, type |-> "value"], [key |-> KeyModel, type |-> "reference"]>> }

\* Execution identifiers the resolver is asked about.
MaxExecId == 12
ExecIds == 0..MaxExecId
\* How many execution identifiers are resolved in one run.
MaxResolved == 2
\* Execution identifiers the metadata store issued for the attempts of the run.
Attempts == {7, 10}

----------------------------------------------------------------------------
(* OutputsResolver *)

\* artifact_utils.deserialize_artifact(type): a fresh artifact of the class
\* the type names, with no uri and no name yet.
deserialize_artifact(type) == [kind |-> type, uri |-> <<>>, name |-> <<>>]

IsValueArtifact(artifact) == artifact.kind = "value"

\* OutputsResolver.__init__
OutputsResolverInit(node_id, outputs, pipeline_id, pipeline_root, pipeline_run_id) ==
  [ node_id         |-> node_id,
    outputs         |-> outputs,
    pipeline_id     |-> pipeline_id,
    pipeline_root   |-> pipeline_root,
    pipeline_run_id |-> pipeline_run_id,
    node_dir        |-> join2(pipeline_root, node_id) ]

\* The execution directory of an attempt.
execution_dir(r, execution_id) ==
  join2(r.node_dir, EXECUTION_PREFIX \o str(execution_id))

\* The body of the loop of generate_output_artifacts for one output spec.
artifact_uri_per_node(r, execution_id, output_spec) ==
  LET artifact == deserialize_artifact(output_spec.type)
      uri == join2(r.node_dir, output_spec.key)
  IN  IF IsValueArtifact(artifact) THEN join2(uri, VALUE_ARTIFACT_FILE_NAME) ELSE uri
artifact_uri_per_run(r, execution_id, output_spec) ==
  LET artifact == deserialize_artifact(output_spec.type)
      uri == join3(r.node_dir, r.pipeline_run_id, output_spec.key)
  IN  IF IsValueArtifact(artifact) THEN join2(uri, VALUE_ARTIFACT_FILE_NAME) ELSE uri
artifact_uri_no_key(r, execution_id, output_spec) ==
  LET artifact == deserialize_artifact(output_spec.type)
      uri == join2(r.node_dir, EXECUTION_PREFIX \o str(execution_id))
  IN  IF IsValueArtifact(artifact) THEN join2(uri, VALUE_ARTIFACT_FILE_NAME) ELSE uri
artifact_uri_directory(r, execution_id, output_spec) ==
  join3(r.node_dir, EXECUTION_PREFIX \o str(execution_id), output_spec.key)
artifact_uri(r, execution_id, output_spec) ==
  LET artifact == deserialize_artifact(output_spec.type)
      uri == join3(r.node_dir, EXECUTION_PREFIX \o str(execution_id), output_spec.key)
  IN  IF IsValueArtifact(artifact) THEN join2(uri, VALUE_ARTIFACT_FILE_NAME) ELSE uri

artifact_name(r, output_spec) ==
  format5(r.pipeline_id, r.pipeline_run_id, r.node_id, output_spec.key, 0)

\* OutputsResolver.generate_output_artifacts: the output dict, as the sequence
\* of its (key, artifact list) items in insertion order.
generate_output_artifacts(r, execution_id) ==
  [ i \in 1..Len(r.outputs) |->
      [ key       |-> r.outputs[i].key,
        artifacts |-> << [ kind |-> deserialize_artifact(r.outputs[i].type).kind,
                           uri  |-> artifact_uri(r, execution_id, r.outputs[i]),
                           name |-> artifact_name(r, r.outputs[i]) ] >> ] ]

\* The artifacts of an output dict in the order the nested loops visit them.
RECURSIVE Flatten(_)
Flatten(output_dict) ==
  IF output_dict = <<>> THEN <<>>
  ELSE Head(output_dict).artifacts \o Flatten(Tail(output_dict))

Uris(output_dict) == { Flatten(output_dict)[i].uri : i \in 1..Len(Flatten(output_dict)) }

executor_output_uri(r, execution_id) ==
  join2(execution_dir(r, execution_id), EXECUTION_OUTPUT_FILE)

stateful_working_dir_per_execution(r) ==
  join3(execution_dir(r, last.eid), r.pipeline_run_id, STATEFUL_WORKING_DIR)
stateful_working_dir(r) ==
  join3(r.node_dir, r.pipeline_run_id, STATEFUL_WORKING_DIR)

----------------------------------------------------------------------------
(* The filesystem behind tf.io.gfile: directories, and files with their content *)

EmptyStorage == [dirs |-> {}, files |-> <<>>]
Exists(st, p) == p \in st.dirs \/ p \in DOMAIN st.files

\* p and the paths above it, up to the nearest existing directory: what a
\* recursive directory creation has to make.
RECURSIVE MissingDirs(_, _)
MissingDirs(st, p) ==
  IF p = <<>> \/ p \in st.dirs THEN {}
  ELSE IF dirname(p) = p THEN {p}
  ELSE {p} \cup MissingDirs(st, dirname(p))

\* q lies below directory p.
Under(p, q) == startswith(q, p \o <<Sep>>) /\ Len(q) > Len(p) + 1

\* tf.io.gfile.makedirs(p): p and every missing directory above it; succeeds
\* when p is already a directory, fails when a file is in the way.
makedirs_exist_fails(st, p, fail) ==
  LET missing == MissingDirs(st, p)
  IN  IF fail \/ p \in st.dirs \/ (\E a \in missing : a \in DOMAIN st.files)
      THEN [st |-> st, ok |-> FALSE]
      ELSE [st |-> [st EXCEPT !.dirs = @ \cup missing], ok |-> TRUE]
makedirs_noop(st, p, fail) == [st |-> st, ok |-> ~fail]
makedirs(st, p, fail) ==
  LET missing == MissingDirs(st, p)
  IN  IF fail \/ (\E a \in missing : a \in DOMAIN st.files)
      THEN [st |-> st, ok |-> FALSE]
      ELSE [st |-> [st EXCEPT !.dirs = @ \cup missing], ok |-> TRUE]

\* with tf.io.gfile.GFile(p, 'w') as f: f.write(data): the file is created or
\* truncated; fails on a directory or under a missing directory.
write_file_keep(st, p, data, fail) ==
  IF fail \/ p \in st.dirs \/ dirname(p) \notin st.dirs
  THEN [st |-> st, ok |-> FALSE]
  ELSE [st |-> [st EXCEPT !.files = @ @@ (p :> data)], ok |-> TRUE]
write_file(st, p, data, fail) ==
  IF fail \/ p \in st.dirs \/ dirname(p) \notin st.dirs
  THEN [st |-> st, ok |-> FALSE]
  ELSE [st |-> [st EXCEPT !.files = (p :> data) @@ @], ok |-> TRUE]

\* tf.io.gfile.isdir(p)
isdir(st, p) == p \in st.dirs

\* tf.io.gfile.rmtree(p): p and everything below it.
rmtree(st, p, fail) ==
  IF fail \/ p \notin st.dirs
  THEN [st |-> st, ok |-> FALSE]
  ELSE [st |-> [dirs  |-> {d \in st.dirs : d # p /\ ~Under(p, d)},
                files |-> [f \in {g \in DOMAIN st.files : ~Under(p, g)} |-> st.files[f]]],
        ok |-> TRUE]

\* tf.io.gfile.remove(p): a single file; fails when there is none.
remove(st, p, fail) ==
  IF fail \/ p \notin DOMAIN st.files
  THEN [st |-> st, ok |-> FALSE]
  ELSE [st |-> [st EXCEPT !.files = [f \in DOMAIN st.files \ {p} |-> st.files[f]]],
        ok |-> TRUE]

----------------------------------------------------------------------------
(* Directory lifecycle: make_output_dirs and remove_output_dirs *)

\* A storage fault: the named storage operation fails on the at-th artifact of
\* the batch (at = 0: the storage works).
NoFault == [at |-> 0, op |-> "none"]
\* The storage operations make_output_dirs performs on an artifact.
make_ops(artifact) ==
  IF IsValueArtifact(artifact) THEN {"makedirs", "write"} ELSE {"makedirs"}
MakeFaults(artifacts) == {NoFault} \cup
  UNION { { [at |-> i, op |-> o] : o \in make_ops(artifacts[i]) } : i \in 1..Len(artifacts) }
\* remove_output_dirs performs one removal per artifact, rmtree or remove.
RemoveFaults(artifacts) == {NoFault} \cup
  { [at |-> i, op |-> "delete"] : i \in 1..Len(artifacts) }

\* The body of the loop of make_output_dirs for one artifact.
make_one(st, artifact, faultOp) ==
  IF IsValueArtifact(artifact)
  THEN LET made == makedirs(st, dirname(artifact.uri), faultOp = "makedirs")
       IN  IF made.ok THEN write_file(made.st, artifact.uri, "", faultOp = "write")
           ELSE made
  ELSE makedirs(st, artifact.uri, faultOp = "makedirs")

\* The body of the loop of remove_output_dirs for one artifact.
remove_one_dirs_only(st, artifact, faultOp) ==
  IF isdir(st, artifact.uri)
  THEN rmtree(st, artifact.uri, faultOp = "delete")
  ELSE [st |-> st, ok |-> faultOp # "delete"]
remove_one(st, artifact, faultOp) ==
  IF isdir(st, artifact.uri)
  THEN rmtree(st, artifact.uri, faultOp = "delete")
  ELSE remove(st, artifact.uri, faultOp = "delete")

\* The loops, from the i-th artifact on: an exception of a storage operation
\* leaves the loop and the function; raised/at tell where.
RECURSIVE make_from_swallow(_, _, _, _)
make_from_swallow(st, artifacts, i, fault) ==
  IF i > Len(artifacts) THEN [st |-> st, raised |-> FALSE, at |-> 0]
  ELSE LET r == make_one(st, artifacts[i], IF fault.at = i THEN fault.op ELSE "none")
       IN  make_from_swallow(r.st, artifacts, i + 1, fault)
RECURSIVE make_from(_, _, _, _)
make_from(st, artifacts, i, fault) ==
  IF i > Len(artifacts) THEN [st |-> st, raised |-> FALSE, at |-> 0]
  ELSE LET r == make_one(st, artifacts[i], IF fault.at = i THEN fault.op ELSE "none")
       IN  IF r.ok THEN make_from(r.st, artifacts, i + 1, fault)
           ELSE [st |-> r.st, raised |-> TRUE, at |-> i]

RECURSIVE remove_from(_, _, _, _)
remove_from(st, artifacts, i, fault) ==
  IF i > Len(artifacts) THEN [st |-> st, raised |-> FALSE, at |-> 0]
  ELSE LET r == remove_one(st, artifacts[i], IF fault.at = i THEN fault.op ELSE "none")
       IN  IF r.ok THEN remove_from(r.st, artifacts, i + 1, fault)
           ELSE [st |-> r.st, raised |-> TRUE, at |-> i]

make_output_dirs(st, output_dict, fault) == make_from(st, Flatten(output_dict), 1, fault)

remove_output_dirs(st, output_dict, fault) == remove_from(st, Flatten(output_dict), 1, fault)

---------------------------------------------------------------------------------------------------------------------------------------------------
(* FilesystemRegistry *)

SchemeLocal == <<>>
SchemeGs == <<"g", "s", ":", "/", "/">>
SchemeHdfs == <<"h", "d", "f", "s", ":", "/", "/">>
SchemeS3 == <<"s", "3", ":", "/", "/">>

\* The filesystem plugin classes with their SUPPORTED_SCHEMES lists.
Classes == {"LocalFilesystem", "GcsFilesystem", "TensorflowFilesystem"}
SUPPORTED_SCHEMES(cls) ==
  CASE cls = "LocalFilesystem"      -> <<SchemeLocal>>
    [] cls = "GcsFilesystem"        -> <<SchemeGs>>
    [] cls = "TensorflowFilesystem" -> <<SchemeLocal, SchemeGs, SchemeHdfs>>

Supports(cls, scheme) ==
  \E i \in 1..Len(SUPPORTED_SCHEMES(cls)) : SUPPORTED_SCHEMES(cls)[i] = scheme

\* Priorities the plugins register with.
MaxPriority == 2
Priorities == 0..MaxPriority

\* FilesystemRegistry.__init__: two empty dicts.
FilesystemRegistryInit ==
  [preferred_filesystem_by_scheme |-> <<>>, filesystem_priority |-> <<>>]

\* The loop of register from the i-th supported scheme on; the priority table
\* already holds the class's new priority.
RECURSIVE register_from(_, _, _, _, _)
register_from(preferred, priorities, cls, priority, i) ==
  IF i > Len(SUPPORTED_SCHEMES(cls)) THEN preferred
  ELSE LET scheme == SUPPORTED_SCHEMES(cls)[i]
           unset == scheme \notin DOMAIN preferred     \* .get(scheme) is None
       IN  IF unset \/ priority < priorities[preferred[scheme]]
           THEN register_from((scheme :> cls) @@ preferred, priorities, cls, priority, i + 1)
           ELSE register_from(preferred, priorities, cls, priority, i + 1)

\* FilesystemRegistry.register, under the registration lock.
register(reg, cls, priority) ==
  LET priorities == (cls :> priority) @@ reg.filesystem_priority
  IN  [ filesystem_priority |-> priorities,
        preferred_filesystem_by_scheme |->
          register_from(reg.preferred_filesystem_by_scheme, priorities, cls, priority, 1) ]

\* repr(s) of a str without quotes or escapes.
repr(s) == <<"'">> \o s \o <<"'">>

\* FilesystemRegistry.get_filesystem_for_scheme: the class, or the exception
\* whose message is formatted with %r of the scheme.
get_filesystem_for_scheme_fallback(reg, scheme) ==
  IF scheme \in DOMAIN reg.preferred_filesystem_by_scheme
  THEN [raised |-> FALSE, message_arg |-> <<>>, fs |-> reg.preferred_filesystem_by_scheme[scheme]]
  ELSE IF SchemeLocal \in DOMAIN reg.preferred_filesystem_by_scheme
  THEN [raised |-> FALSE, message_arg |-> <<>>, fs |-> reg.preferred_filesystem_by_scheme[SchemeLocal]]
  ELSE [raised |-> TRUE, message_arg |-> repr(scheme), fs |-> "none"]
get_filesystem_for_scheme(reg, scheme) ==
  IF scheme \notin DOMAIN reg.preferred_filesystem_by_scheme
  THEN [raised |-> TRUE, message_arg |-> repr(scheme), fs |-> "none"]
  ELSE [raised |-> FALSE, message_arg |-> <<>>, fs |-> reg.preferred_filesystem_by_scheme[scheme]]

LowerAlnum ==
  {"a", "b", "c", "d", "e", "f", "g", "h", "i", "j", "k", "l", "m", "n", "o", "p", "q",
   "r", "s", "t", "u", "v", "w", "x", "y", "z",
   "0", "1", "2", "3", "4", "5", "6", "7", "8", "9"}

\* The length of the longest run of [a-z0-9] characters path starts with after
\* its first i characters.
RECURSIVE alnum_run(_, _)
alnum_run(path, i) ==
  IF i < Len(path) /\ path[i + 1] \in LowerAlnum THEN alnum_run(path, i + 1) ELSE i

\* re.match('^([a-z0-9]+://)', path): group 1, or "no match".  The run is
\* greedy and ':' is not in the class, so '://' must follow the whole run.
match_scheme(path) ==
  LET n == alnum_run(path, 0)
  IN  IF n >= 1 /\ Len(path) >= n + 3 /\ SubSeq(path, n + 1, n + 3) = <<":", "/", "/">>
      THEN [matched |-> TRUE, group1 |-> SubSeq(path, 1, n + 3)]
      ELSE [matched |-> FALSE, group1 |-> <<>>]

\* The scheme get_filesystem_for_path looks up.
scheme_of_path(path) ==
  LET result == match_scheme(path)
  IN  IF result.matched THEN result.group1 ELSE SchemeLocal

\* FilesystemRegistry.get_filesystem_for_path
get_filesystem_for_path(reg, path) == get_filesystem_for_scheme(reg, scheme_of_path(path))

PathS3 == <<"s", "3", ":", "/", "/", "b", "/", "x">>
PathGs == <<"g", "s", ":", "/", "/", "b", "/", "x">>
PathHdfs == <<"h", "d", "f", "s", ":", "/", "/", "n", "/", "x">>
PathLocal == <<"/", "t", "m", "p", "/", "x">>
PathRel == <<"x", "/", "y">>
PathUpper == <<"S", "3", ":", "/", "/", "b", "/", "x">>
PathDash == <<"m", "y", "-", "f", "s", ":", "/", "/", "b", "/", "x">>
LookupPaths == {PathS3, PathGs, PathHdfs, PathLocal, PathRel, PathUpper, PathDash}
LookupSchemes == {SchemeLocal, SchemeGs, SchemeHdfs, SchemeS3}

\* A registry call: the operation, its argument, the registry as it was when
\* the call started, and the outcome of a lookup.
RegistryCall(op, arg, before, out) ==
  [op |-> op, arg |-> arg, before |-> before,
   raised |-> out.raised, message_arg |-> out.message_arg, fs |-> out.fs]
NoOutcome == [raised |-> FALSE, message_arg |-> <<>>, fs |-> "none"]

RegistryInit ==
  /\ registry = FilesystemRegistryInit
  /\ lookup = RegistryCall("none", <<>>, FilesystemRegistryInit, NoOutcome)
  /\ registration_lock = "free"
  /\ threads = <<>>

----------------------------------------------------------------------------
(* State machine of one node's resolver and its storage *)

\* A call: the operation, its execution id, the storage fault it met, whether
\* it raised and at which artifact of the batch, what it returned, and whether
\* the call before it was make_output_dirs on the same output dict
\* ("make_faulted": with a storage fault, "make_raised": it raised with the
\* storage working, "make": it returned normally, "make_clean": and started
\* with none of the artifacts' uris, nor a value artifact's parent directory,
\* in storage) or a remove_output_dirs that returned normally ("remove": on
\* the same output dict, "remove_other": on another attempt's).
Call(op, eid, fault, raised, at, result, after) ==
  [op |-> op, eid |-> eid, fault |-> fault, raised |-> raised, at |-> at,
   result |-> result, after |-> after]

NoCall == Call("none", 0, NoFault, FALSE, 0, <<>>, "other")

Clean(st, output_dict) ==
  \A i \in 1..Len(Flatten(output_dict)) :
    LET a == Flatten(output_dict)[i]
    IN  ~Exists(st, a.uri) /\ (IsValueArtifact(a) => ~Exists(st, dirname(a.uri)))

After(e) ==
  IF last.op = "make_output_dirs" /\ last.eid = e
  THEN IF last.fault # NoFault THEN "make_faulted"
       ELSE IF last.raised THEN "make_raised"
       ELSE IF \A d \in returned[e] : Clean(pre, d) THEN "make_clean"
       ELSE "make"
  ELSE IF last.op = "remove_output_dirs" /\ ~last.raised
  THEN IF last.eid = e THEN "remove" ELSE "remove_other"
  ELSE "other"

MakedirsFault(fail) == IF fail THEN [at |-> 1, op |-> "makedirs"] ELSE NoFault

\* What an earlier run may have left where this run's first attempt will
\* write: a file where a reference artifact's directory goes, or a directory
\* where a value artifact's file goes.
FirstAttempt == CHOOSE e \in Attempts : \A x \in Attempts : e <= x
Leftovers(r) ==
  {EmptyStorage} \cup
  { LET a == Flatten(generate_output_artifacts(r, FirstAttempt))[i]
    IN  IF IsValueArtifact(a)
        THEN makedirs(EmptyStorage, a.uri, FALSE).st
        ELSE write_file(makedirs(EmptyStorage, dirname(a.uri), FALSE).st,
                        a.uri, "old", FALSE).st
    : i \in 1..Len(r.outputs) }

Init ==
  /\ \E outputs \in LifecycleOutputSpecs :
       self = OutputsResolverInit(NodeTrainer, outputs, PipelineId1, RootGcs, RunId1)
  /\ storage \in Leftovers(self)
  /\ pre = storage
  /\ last = NoCall
  /\ returned = [e \in Attempts |-> {}]
  /\ stateful = {}
  /\ RegistryInit

Resolved == {e \in DOMAIN returned : returned[e] # {}}

GenerateOutputArtifacts_makes_dirs(e) ==
  LET output_dict == generate_output_artifacts(self, e)
  IN  /\ Cardinality(Resolved \cup {e}) <= MaxResolved
      /\ returned' = [returned EXCEPT ![e] = @ \cup {output_dict}]
      /\ last' = Call("generate_output_artifacts", e, NoFault, FALSE, 0, <<>>, "other")
      /\ pre' = storage
      /\ storage' = make_output_dirs(storage, output_dict, NoFault).st
      /\ UNCHANGED <<self, stateful, registryVars>>
GenerateOutputArtifacts(e) ==
  LET output_dict == generate_output_artifacts(self, e)
  IN  /\ Cardinality(Resolved \cup {e}) <= MaxResolved
      /\ returned' = [returned EXCEPT ![e] = @ \cup {output_dict}]
      /\ last' = Call("generate_output_artifacts", e, NoFault, FALSE, 0, <<>>, "other")
      /\ pre' = storage
      /\ UNCHANGED <<self, storage, stateful, registryVars>>

GetExecutorOutputUri_moves_node_dir(e, fail) ==
  LET made == makedirs(storage, execution_dir(self, e), fail)
  IN  /\ storage' = made.st
      /\ self' = [self EXCEPT !.node_dir = execution_dir(self, e)]
      /\ last' = Call("get_executor_output_uri", e, MakedirsFault(fail), ~made.ok, 0,
                      IF made.ok THEN executor_output_uri(self, e) ELSE <<>>, "other")
      /\ pre' = storage
      /\ UNCHANGED <<returned, stateful, registryVars>>
GetExecutorOutputUri(e, fail) ==
  LET made == makedirs(storage, execution_dir(self, e), fail)
  IN  /\ storage' = made.st
      /\ last' = Call("get_executor_output_uri", e, MakedirsFault(fail), ~made.ok, 0,
                      IF made.ok THEN executor_output_uri(self, e) ELSE <<>>, "other")
      /\ pre' = storage
      /\ UNCHANGED <<self, returned, stateful, registryVars>>

GetStatefulWorkingDirectory(fail) ==
  LET made == makedirs(storage, stateful_working_dir(self), fail)
  IN  /\ storage' = made.st
      /\ stateful' = IF made.ok THEN stateful \cup {stateful_working_dir(self)} ELSE stateful
      /\ last' = Call("get_stateful_working_directory", 0, MakedirsFault(fail), ~made.ok, 0,
                      IF made.ok THEN stateful_working_dir(self) ELSE <<>>, "other")
      /\ pre' = storage
      /\ UNCHANGED <<self, returned, registryVars>>

MakeOutputDirs(e) ==
  \E output_dict \in returned[e] :
    \E fault \in MakeFaults(Flatten(output_dict)) :
      LET r == make_output_dirs(storage, output_dict, fault)
      IN  /\ storage' = r.st
          /\ last' = Call("make_output_dirs", e, fault, r.raised, r.at, <<>>, After(e))
          /\ pre' = storage
          /\ UNCHANGED <<self, returned, stateful, registryVars>>

RemoveOutputDirs(e) ==
  \E output_dict \in returned[e] :
    \E fault \in RemoveFaults(Flatten(output_dict)) :
      LET r == remove_output_dirs(storage, output_dict, fault)
      IN  /\ storage' = r.st
          /\ last' = Call("remove_output_dirs", e, fault, r.raised, r.at, <<>>, After(e))
          /\ pre' = storage
          /\ UNCHANGED <<self, returned, stateful, registryVars>>

\* The node's executable writes its payload: a value artifact's file, or a
\* part file in a reference artifact's directory.
PartFile == <<"p", "a", "r", "t">>
ExecutorWrite(e) ==
  \E output_dict \in returned[e] : \E i \in 1..Len(Flatten(output_dict)) :
    LET a == Flatten(output_dict)[i]
        w == IF IsValueArtifact(a)
             THEN write_file(storage, a.uri, "data", FALSE)
             ELSE write_file(storage, join2(a.uri, PartFile), "data", FALSE)
    IN  /\ w.ok
        /\ storage' = w.st
        /\ last' = Call("executor", e, NoFault, FALSE, 0, <<>>, "other")
        /\ pre' = storage
        /\ UNCHANGED <<self, returned, stateful, registryVars>>

Next ==
  \/ \E e \in Attempts : GenerateOutputArtifacts(e)
  \/ \E e \in Attempts, fail \in BOOLEAN : GetExecutorOutputUri(e, fail)
  \/ \E fail \in BOOLEAN : GetStatefulWorkingDirectory(fail)
  \/ \E e \in Attempts : MakeOutputDirs(e)
  \/ \E e \in Attempts : RemoveOutputDirs(e)
  \/ \E e \in Attempts : ExecutorWrite(e)

Spec == Init /\ [][Next]_vars

----------------------------------------------------------------------------
(* The resolver alone: every context, every execution identifier *)

InitResolver ==
  /\ \E root \in Roots, outputs \in OutputSpecs :
       self = OutputsResolverInit(NodeTrainer, outputs, PipelineId1, root, RunId1)
  /\ storage = EmptyStorage
  /\ pre = storage
  /\ last = NoCall
  /\ returned = [e \in ExecIds |-> {}]
  /\ stateful = {}
  /\ RegistryInit

NextResolver == \E e \in ExecIds : GenerateOutputArtifacts(e)

SpecResolver == InitResolver /\ [][NextResolver]_vars

----------------------------------------------------------------------------
(* A run with a retry: two attempts whose executables also write their
   output record and the run's state *)

\* The execution identifiers of the attempt and its retry.
RetryAttempts == {1, 10}

\* The outputs of the retried node.
RetryOutputSpecs ==
  { <<[key |-> KeyModel, type |-> "reference"], [key |-> KeyAccuracy, type |-> "value"]>> }

InitRetry ==
  /\ \E outputs \in RetryOutputSpecs :
       self = OutputsResolverInit(NodeTrainer, outputs, PipelineId1, RootGcs, RunId1)
  /\ storage = EmptyStorage
  /\ pre = storage
  /\ last = NoCall
  /\ returned = [e \in RetryAttempts |-> {}]
  /\ stateful = {}
  /\ RegistryInit

\* make_output_dirs with the storage working.
MakeOutputDirsWorking(e) ==
  \E output_dict \in returned[e] :
    LET r == make_output_dirs(storage, output_dict, NoFault)
    IN  /\ storage' = r.st
        /\ last' = Call("make_output_dirs", e, NoFault, r.raised, r.at, <<>>, After(e))
        /\ pre' = storage
        /\ UNCHANGED <<self, returned, stateful, registryVars>>

\* The executable writes its output record where get_executor_output_uri told
\* it to.
ExecutorRecord(e) ==
  LET w == write_file(storage, executor_output_uri(self, e), "data", FALSE)
  IN  /\ w.ok
      /\ storage' = w.st
      /\ last' = Call("executor", e, NoFault, FALSE, 0, <<>>, "other")
      /\ pre' = storage
      /\ UNCHANGED <<self, returned, stateful, registryVars>>

\* The executable keeps its state in the stateful working directory.
StateFile == <<"s", "t", "a", "t", "e">>
ExecutorState ==
  \E dir \in stateful :
    LET w == write_file(storage, join2(dir, StateFile), "data", FALSE)
    IN  /\ w.ok
        /\ storage' = w.st
        /\ last' = Call("executor", 0, NoFault, FALSE, 0, <<>>, "other")
        /\ pre' = storage
        /\ UNCHANGED <<self, returned, stateful, registryVars>>

NextRetry ==
  \/ \E e \in RetryAttempts : GenerateOutputArtifacts(e)
  \/ \E e \in RetryAttempts : GetExecutorOutputUri(e, FALSE)
  \/ GetStatefulWorkingDirectory(FALSE)
  \/ \E e \in RetryAttempts : MakeOutputDirsWorking(e)
  \/ \E e \in RetryAttempts : RemoveOutputDirs(e)
  \/ \E e \in RetryAttempts : ExecutorWrite(e)
  \/ \E e \in RetryAttempts : ExecutorRecord(e)
  \/ ExecutorState

SpecRetry == InitRetry /\ [][NextRetry]_vars

----------------------------------------------------------------------------
(* State machine of the filesystem registry *)

Register(cls, priority) ==
  /\ registry' = register(registry, cls, priority)
  /\ lookup' = RegistryCall("register", <<cls, priority>>, registry, NoOutcome)
  /\ UNCHANGED <<registration_lock, threads, outputVars>>

GetFilesystemForScheme(scheme) ==
  /\ lookup' = RegistryCall("get_filesystem_for_scheme", scheme, registry,
                            get_filesystem_for_scheme(registry, scheme))
  /\ UNCHANGED <<registry, registration_lock, threads, outputVars>>

GetFilesystemForPath(path) ==
  /\ lookup' = RegistryCall("get_filesystem_for_path", path, registry,
                            get_filesystem_for_path(registry, path))
  /\ UNCHANGED <<registry, registration_lock, threads, outputVars>>

InitRegistry ==
  /\ self = OutputsResolverInit(NodeTrainer, <<>>, PipelineId1, RootGcs, RunId1)
  /\ storage = EmptyStorage
  /\ pre = storage
  /\ last = NoCall
  /\ returned = <<>>
  /\ stateful = {}
  /\ RegistryInit

NextRegistry ==
  \/ \E cls \in Classes, priority \in Priorities : Register(cls, priority)
  \/ \E scheme \in LookupSchemes : GetFilesystemForScheme(scheme)
  \/ \E path \in LookupPaths : GetFilesystemForPath(path)

SpecRegistry == InitRegistry /\ [][NextRegistry]_vars

----------------------------------------------------------------------------
(* The registry called from several threads: each statement of register and
   of get_filesystem_for_scheme that reads or writes the shared dicts is a
   step of its thread *)

Registrars == {"registrar_a", "registrar_b"}
Reader == "reader"

\* A thread about to call register(cls, priority) or
\* get_filesystem_for_scheme(scheme), with its locals unset.
RegisterThread(cls, priority) ==
  [op |-> "register", cls |-> cls, priority |-> priority, scheme |-> <<>>,
   pc |-> "acquire", i |-> 1, current_preferred |-> "none",
   raised |-> FALSE, fs |-> "none", concurrent |-> FALSE]
LookupThread(scheme) ==
  [op |-> "get_filesystem_for_scheme", cls |-> "none", priority |-> 0, scheme |-> scheme,
   pc |-> "contains", i |-> 1, current_preferred |-> "none",
   raised |-> FALSE, fs |-> "none", concurrent |-> FALSE]

\* with self._registration_lock: entering blocks until the lock is free.
acquire_unguarded(lock, t) == [ok |-> TRUE, lock |-> t]
acquire(lock, t) == [ok |-> lock = "free", lock |-> t]

InitConcurrent ==
  /\ self = OutputsResolverInit(NodeTrainer, <<>>, PipelineId1, RootGcs, RunId1)
  /\ storage = EmptyStorage
  /\ pre = storage
  /\ last = NoCall
  /\ returned = <<>>
  /\ stateful = {}
  /\ registry = FilesystemRegistryInit
  /\ lookup = RegistryCall("none", <<>>, FilesystemRegistryInit, NoOutcome)
  /\ registration_lock = "free"
  /\ \E jobs \in [Registrars -> Classes \X Priorities], scheme \in LookupSchemes :
       threads = [t \in Registrars \cup {Reader} |->
                    IF t = Reader THEN LookupThread(scheme)
                    ELSE RegisterThread(jobs[t][1], jobs[t][2])]

\* with self._registration_lock:
Acquire(t) ==
  LET a == acquire(registration_lock, t)
  IN  /\ threads[t].pc = "acquire"
      /\ a.ok
      /\ registration_lock' = a.lock
      /\ threads' = [threads EXCEPT ![t].pc = "set_priority"]
      /\ UNCHANGED <<registry, lookup, outputVars>>

\* self._filesystem_priority[filesystem_cls] = priority
SetPriority(t) ==
  /\ threads[t].pc = "set_priority"
  /\ registry' = [registry EXCEPT
                    !.filesystem_priority = (threads[t].cls :> threads[t].priority) @@ @]
  /\ threads' = [threads EXCEPT ![t].pc = "next_scheme"]
  /\ UNCHANGED <<lookup, registration_lock, outputVars>>

\* for scheme in filesystem_cls.SUPPORTED_SCHEMES:
\*   current_preferred = self._preferred_filesystem_by_scheme.get(scheme)
NextScheme(t) ==
  /\ threads[t].pc = "next_scheme"
  /\ IF threads[t].i > Len(SUPPORTED_SCHEMES(threads[t].cls))
     THEN threads' = [threads EXCEPT ![t].pc = "release"]
     ELSE LET scheme == SUPPORTED_SCHEMES(threads[t].cls)[threads[t].i]
              preferred == registry.preferred_filesystem_by_scheme
          IN  threads' = [threads EXCEPT
                            ![t].current_preferred =
                               IF scheme \in DOMAIN preferred THEN preferred[scheme] ELSE "none",
                            ![t].pc = "compare"]
  /\ UNCHANGED <<registry, lookup, registration_lock, outputVars>>

\* if (not current_preferred or
\*     priority < self._filesystem_priority[current_preferred]):
Compare(t) ==
  /\ threads[t].pc = "compare"
  /\ IF \/ threads[t].current_preferred = "none"
        \/ threads[t].priority < registry.filesystem_priority[threads[t].current_preferred]
     THEN threads' = [threads EXCEPT ![t].pc = "set_preferred"]
     ELSE threads' = [threads EXCEPT ![t].i = @ + 1, ![t].pc = "next_scheme"]
  /\ UNCHANGED <<registry, lookup, registration_lock, outputVars>>

\* self._preferred_filesystem_by_scheme[scheme] = filesystem_cls
SetPreferred(t) ==
  /\ threads[t].pc = "set_preferred"
  /\ registry' = [registry EXCEPT
                    !.preferred_filesystem_by_scheme =
                       (SUPPORTED_SCHEMES(threads[t].cls)[threads[t].i] :> threads[t].cls) @@ @]
  /\ threads' = [threads EXCEPT ![t].i = @ + 1, ![t].pc = "next_scheme"]
  /\ UNCHANGED <<lookup, registration_lock, outputVars>>

\* Leaving the with block.
Release(t) ==
  /\ threads[t].pc = "release"
  /\ registration_lock' = "free"
  /\ threads' = [threads EXCEPT ![t].pc = "done"]
  /\ UNCHANGED <<registry, lookup, outputVars>>

\* if scheme not in self._preferred_filesystem_by_scheme: raise Exception(...)
\* (concurrent: a registration held the lock at that moment).
Contains(t) ==
  /\ threads[t].pc = "contains"
  /\ IF threads[t].scheme \notin DOMAIN registry.preferred_filesystem_by_scheme
     THEN threads' = [threads EXCEPT ![t].raised = TRUE, ![t].pc = "done",
                                     ![t].concurrent = registration_lock # "free"]
     ELSE threads' = [threads EXCEPT ![t].pc = "getitem",
                                     ![t].concurrent = registration_lock # "free"]
  /\ UNCHANGED <<registry, lookup, registration_lock, outputVars>>

\* return self._preferred_filesystem_by_scheme[scheme]
GetItem(t) ==
  /\ threads[t].pc = "getitem"
  /\ threads' = [threads EXCEPT
                   ![t].fs = registry.preferred_filesystem_by_scheme[threads[t].scheme],
                   ![t].pc = "done"]
  /\ UNCHANGED <<registry, lookup, registration_lock, outputVars>>

NextConcurrent ==
  \/ \E t \in Registrars : Acquire(t)
  \/ \E t \in Registrars : SetPriority(t)
  \/ \E t \in Registrars : NextScheme(t)
  \/ \E t \in Registrars : Compare(t)
  \/ \E t \in Registrars : SetPreferred(t)
  \/ \E t \in Registrars : Release(t)
  \/ Contains(Reader)
  \/ GetItem(Reader)

SpecConcurrent == InitConcurrent /\ [][NextConcurrent]_vars

----------------------------------------------------------------------------
(* Claims about the resolver's locations, under SpecResolver *)

Artifacts(output_dict) == { Flatten(output_dict)[i] : i \in 1..Len(Flatten(output_dict)) }
Keys(output_dict) == { output_dict[i].key : i \in 1..Len(output_dict) }
ItemsOf(output_dict, key) == { i \in 1..Len(output_dict) : output_dict[i].key = key }
NamesOf(output_dict, key) ==
  UNION { { a.name : a \in Artifacts(<<output_dict[i]>>) } : i \in ItemsOf(output_dict, key) }

\* C1: for two distinct execution identifiers the returned uri sets are
\* disjoint, and for every output key the returned names are the same.
C1_DisjointUrisSameNames ==
  \A e1 \in Resolved, e2 \in Resolved :
    e1 # e2 =>
      \A d1 \in returned[e1], d2 \in returned[e2] :
        /\ Uris(d1) \cap Uris(d2) = {}
        /\ Keys(d1) = Keys(d2)
        /\ \A key \in Keys(d1) : NamesOf(d1, key) = NamesOf(d2, key)

C1_Witness ==
  \E e1 \in Resolved, e2 \in Resolved :
    /\ e1 # e2
    /\ \E d1 \in returned[e1], d2 \in returned[e2] : Len(d1) = 2 /\ Len(d2) = 2

\* The decimal numeral of an execution identifier below 100.
Numeral(n) ==
  IF n < 10 THEN <<Digit[n + 1]>> ELSE <<Digit[(n \div 10) + 1], Digit[(n % 10) + 1]>>

\* The persisted layout <root>/<node_id>/execution_<execution_id>/<output_key>[/value].
LayoutUri(e, key, kind) ==
  self.pipeline_root \o <<"/">> \o self.node_id \o <<"/">>
    \o <<"e", "x", "e", "c", "u", "t", "i", "o", "n", "_">> \o Numeral(e)
    \o <<"/">> \o key
    \o (IF kind = "value" THEN <<"/", "v", "a", "l", "u", "e">> ELSE <<>>)

LayoutName(key) ==
  self.pipeline_id \o <<":">> \o self.pipeline_run_id \o <<":">> \o self.node_id
    \o <<":">> \o key \o <<":", "0">>

\* C7: for every declared output key and execution identifier the output
\* dict holds exactly one descriptor for the key, with uri
\* root/node_id/execution_<id>/<key>, followed by /value for a value artifact,
\* and name pipeline_id:pipeline_run_id:node_id:key:0.
C7_Layout ==
  \A e \in Resolved : \A d \in returned[e] :
    /\ Len(d) = Len(self.outputs)
    /\ \A i \in 1..Len(self.outputs) :
         LET key == self.outputs[i].key
             kind == self.outputs[i].type
         IN  /\ Cardinality(ItemsOf(d, key)) = 1
             /\ \A k \in ItemsOf(d, key) :
                  /\ Len(d[k].artifacts) = 1
                  /\ d[k].artifacts[1].kind = kind
                  /\ d[k].artifacts[1].uri = LayoutUri(e, key, kind)
                  /\ d[k].artifacts[1].name = LayoutName(key)

C7_Witness ==
  \E e \in Resolved : \E d \in returned[e] :
    /\ e >= 10
    /\ \E a \in Artifacts(d) : a.kind = "value"
    /\ \E a \in Artifacts(d) : a.kind = "reference"

UriExample ==
  <<"g", "s", ":", "/", "/", "b", "u", "c", "k", "e", "t", "/", "p", "i", "p", "e", "/",
    "T", "r", "a", "i", "n", "e", "r", "/",
    "e", "x", "e", "c", "u", "t", "i", "o", "n", "_", "7", "/", "m", "o", "d", "e", "l">>
NameExample ==
  <<"p", "i", "p", "e", "1", ":", "r", "u", "n", "1", ":", "T", "r", "a", "i", "n", "e", "r",
    ":", "m", "o", "d", "e", "l", ":", "0">>

\* The context of the example: root gs://bucket/pipe, node Trainer, run run1,
\* pipeline pipe1, a value-kind output under key model.
ExampleContext ==
  /\ self.pipeline_root = RootGcs
  /\ self.node_id = NodeTrainer
  /\ self.pipeline_run_id = RunId1
  /\ self.pipeline_id = PipelineId1
  /\ \E i \in 1..Len(self.outputs) :
       self.outputs[i] = [key |-> KeyModel, type |-> "value"]

ExampleArtifacts ==
  UNION { UNION { Artifacts(<<d[k]>>) : k \in ItemsOf(d, KeyModel) } : d \in returned[7] }

\* C8 as stated: in the example context, execution identifier 7 gives key
\* model the uri gs://bucket/pipe/Trainer/execution_7/model and the name
\* pipe1:run1:Trainer:model:0.
C8_ExampleAsStated ==
  (ExampleContext /\ 7 \in Resolved) =>
    \A a \in ExampleArtifacts : a.uri = UriExample /\ a.name = NameExample

\* C8 amended: in the example context, execution identifier 7 gives key model
\* the uri gs://bucket/pipe/Trainer/execution_7/model/value (the value
\* artifact's file) and the name pipe1:run1:Trainer:model:0.
C8_ExampleValueFile ==
  (ExampleContext /\ 7 \in Resolved) =>
    /\ ExampleArtifacts # {}
    /\ \A a \in ExampleArtifacts :
         /\ a.uri = UriExample \o <<"/", "v", "a", "l", "u", "e">>
         /\ a.name = NameExample

C8_Witness == ExampleContext /\ 7 \in Resolved /\ ExampleArtifacts # {}

\* The persisted layout <root>/<node_id>/execution_<execution_id>/executor_output.pb.
LayoutRecord(e) ==
  self.pipeline_root \o <<"/">> \o self.node_id \o <<"/">>
    \o <<"e", "x", "e", "c", "u", "t", "i", "o", "n", "_">> \o Numeral(e)
    \o <<"/", "e", "x", "e", "c", "u", "t", "o", "r", "_", "o", "u", "t", "p", "u", "t", ".", "p", "b">>

\* The uris of an output dict are pairwise distinct, none is a path prefix of
\* another, and none is the executor output record's uri of the attempt.
NoCollision(e, d) ==
  /\ \A i \in 1..Len(Flatten(d)), j \in 1..Len(Flatten(d)) :
       i # j => /\ Flatten(d)[i].uri # Flatten(d)[j].uri
                /\ ~Under(Flatten(d)[i].uri, Flatten(d)[j].uri)
  /\ \A i \in 1..Len(Flatten(d)) :
       /\ Flatten(d)[i].uri # LayoutRecord(e)
       /\ Flatten(d)[i].uri # executor_output_uri(self, e)

\* C16 as stated: within one execution identifier the uris of the declared
\* output keys are pairwise distinct, none is a path prefix of another, and
\* none equals root/node_id/execution_<id>/executor_output.pb.
C16_NoCollisionAsStated ==
  \A e \in Resolved : \A d \in returned[e] : NoCollision(e, d)

\* C16 amended: the same, for a node none of whose output keys is the
\* record's file name executor_output.pb; an output declared under that name
\* that is not a value artifact gets the record's uri.
C16_NoCollisionUnlessRecordKey ==
  \A e \in Resolved : \A d \in returned[e] :
    /\ (\A i \in 1..Len(d) : d[i].key # KeyRecord) => NoCollision(e, d)
    /\ \A i \in 1..Len(d) :
         (d[i].key = KeyRecord /\ d[i].artifacts[1].kind = "reference") =>
           d[i].artifacts[1].uri = LayoutRecord(e)

C16_Witness ==
  \E e \in Resolved : \E d \in returned[e] :
    /\ e >= 10
    /\ Len(d) = 2
    /\ \A i \in 1..Len(d) : d[i].key # KeyRecord
    /\ \E a \in Artifacts(d) : a.kind = "value"
    /\ \E a \in Artifacts(d) : a.kind = "reference"

----------------------------------------------------------------------------
(* Claims about the resolver and the storage lifecycle, under Spec *)

HasStorage(e) == Exists(storage, execution_dir(self, e))

\* C2: generate_output_artifacts called again with the same execution
\* identifier, whatever resolver and lifecycle calls came in between, returns
\* the same output dict (every key's uri and name) as before.
C2_SameIdSameResult ==
  \A e \in DOMAIN returned : Cardinality(returned[e]) <= 1

\* The executable has written below one of the attempt's uris: the attempt was
\* resolved and its storage made before the last call.
C2_Witness ==
  /\ last.op = "generate_output_artifacts"
  /\ \E d \in returned[last.eid] : \E u \in Uris(d) :
       \E f \in DOMAIN storage.files :
         (f = u \/ Under(u, f)) /\ storage.files[f] = "data"
  /\ stateful # {}

\* The persisted layout <root>/<node_id>/<pipeline_run_id>/stateful_working_dir.
LayoutStateful ==
  self.pipeline_root \o <<"/">> \o self.node_id \o <<"/">> \o self.pipeline_run_id
    \o <<"/", "s", "t", "a", "t", "e", "f", "u", "l", "_", "w", "o", "r", "k", "i", "n", "g",
         "_", "d", "i", "r">>

LastArtifacts ==
  IF last.eid \in DOMAIN returned /\ returned[last.eid] # {}
  THEN Flatten(CHOOSE d \in returned[last.eid] : TRUE) ELSE <<>>

NothingAt(st, u) ==
  /\ ~Exists(st, u)
  /\ \A p \in st.dirs \cup DOMAIN st.files : ~Under(u, p)

\* remove_output_dirs right after a make_output_dirs of the same output dict
\* that started from clean storage, the storage working in both calls.
MakeThenRemove ==
  /\ last.op = "remove_output_dirs"
  /\ last.after = "make_clean"
  /\ last.fault = NoFault

\* C4 as stated: make_output_dirs then remove_output_dirs from clean storage
\* completes without error and leaves nothing at any uri, nor the parent
\* directory made for a value artifact's file.
C4_NoTraceAsStated ==
  MakeThenRemove =>
    /\ ~last.raised
    /\ \A i \in 1..Len(LastArtifacts) :
         LET a == LastArtifacts[i]
         IN  /\ NothingAt(storage, a.uri)
             /\ IsValueArtifact(a) => ~Exists(storage, dirname(a.uri))

\* C4 amended: make_output_dirs then remove_output_dirs from clean storage
\* completes without error and leaves no file or directory at any uri; the
\* parent directory made for a value artifact's file stays, empty.
C4_NoObjectAtUri ==
  MakeThenRemove =>
    /\ ~last.raised
    /\ \A i \in 1..Len(LastArtifacts) :
         LET a == LastArtifacts[i]
         IN  /\ NothingAt(storage, a.uri)
             /\ IsValueArtifact(a) =>
                  /\ dirname(a.uri) \in storage.dirs
                  /\ NothingAt([storage EXCEPT !.dirs = @ \ {dirname(a.uri)}], dirname(a.uri))

C4_Witness ==
  /\ MakeThenRemove
  /\ \E i \in 1..Len(LastArtifacts) : IsValueArtifact(LastArtifacts[i])
  /\ \E i \in 1..Len(LastArtifacts) : ~IsValueArtifact(LastArtifacts[i])

\* C5 as stated: whatever the storage held, a second make_output_dirs right
\* after a first one on the same output dict raises nothing and leaves the
\* storage as the first call left it.
C5_TwiceAsStated ==
  (/\ last.op = "make_output_dirs"
   /\ last.after \in {"make", "make_clean", "make_raised"}
   /\ last.fault = NoFault) =>
    (~last.raised /\ storage = pre)

\* C5 amended: a second make_output_dirs right after a first one on the same
\* output dict that returned normally raises nothing and leaves the storage
\* (directories, files, contents) as the first call left it.
C5_TwiceAfterSuccess ==
  (/\ last.op = "make_output_dirs"
   /\ last.after \in {"make", "make_clean"}
   /\ last.fault = NoFault) =>
    (~last.raised /\ storage = pre)

C5_Witness ==
  /\ last.op = "make_output_dirs"
  /\ last.after = "make"
  /\ last.fault = NoFault
  /\ Len(LastArtifacts) = 2

\* Whether the storage refuses to make an artifact's object: a file where a
\* directory goes, or a directory where the value file goes.
Refuses(st, a) ==
  IF IsValueArtifact(a)
  THEN a.uri \in st.dirs \/ dirname(a.uri) \in DOMAIN st.files
  ELSE a.uri \in DOMAIN st.files

\* The artifacts of the last batch on which a storage operation fails when
\* reached: by a storage fault, or by what the storage held.
FailsAt ==
  { j \in 1..Len(LastArtifacts) :
      \/ last.fault.at = j
      \/ last.op = "make_output_dirs" /\ Refuses(pre, LastArtifacts[j])
      \/ last.op = "remove_output_dirs" /\ ~Exists(pre, LastArtifacts[j].uri) }

FirstFailure == CHOOSE i \in FailsAt : \A j \in FailsAt : i <= j

\* What the storage holds at and below an artifact's uri.
At(st, a) ==
  [dirs  |-> {d \in st.dirs : d = a.uri \/ Under(a.uri, d)},
   files |-> {<<f, st.files[f]>> : f \in {g \in DOMAIN st.files : g = a.uri \/ Under(a.uri, g)}}]

Applied(a) ==
  IF last.op = "remove_output_dirs" THEN NothingAt(storage, a.uri)
  ELSE IF IsValueArtifact(a)
  THEN a.uri \in DOMAIN storage.files /\ storage.files[a.uri] = ""
  ELSE a.uri \in storage.dirs

\* C10: when a storage operation fails on the i-th artifact of a batch,
\* make_output_dirs / remove_output_dirs raises; the storage of the artifacts
\* after the i-th is as it was, and the artifacts before the i-th keep what the
\* call did to them.
C10_FailureReported ==
  (last.op \in {"make_output_dirs", "remove_output_dirs"} /\ FailsAt # {}) =>
    /\ last.raised
    /\ last.at = FirstFailure
    /\ \A j \in 1..Len(LastArtifacts) :
         /\ j > FirstFailure => At(storage, LastArtifacts[j]) = At(pre, LastArtifacts[j])
         /\ j < FirstFailure => Applied(LastArtifacts[j])

C10_Witness ==
  /\ last.op = "make_output_dirs"
  /\ Len(LastArtifacts) = 2
  /\ last.fault = [at |-> 1, op |-> "makedirs"]
  /\ last.raised
  /\ ~Exists(storage, LastArtifacts[2].uri)

\* The persisted layout <root>/<node_id>/execution_<execution_id>.
LayoutExecutionDir(e) ==
  self.pipeline_root \o <<"/">> \o self.node_id \o <<"/">>
    \o <<"e", "x", "e", "c", "u", "t", "i", "o", "n", "_">> \o Numeral(e)

\* C11: when get_executor_output_uri returns, its result is
\* root/node_id/execution_<id>/executor_output.pb and the directory
\* root/node_id/execution_<id> exists; when get_stateful_working_directory
\* returns, the directory it returned exists; whatever the storage held before.
C11_DirectoryExists ==
  /\ (last.op = "get_executor_output_uri" /\ ~last.raised) =>
       /\ last.result = LayoutExecutionDir(last.eid)
                          \o <<"/", "e", "x", "e", "c", "u", "t", "o", "r", "_",
                               "o", "u", "t", "p", "u", "t", ".", "p", "b">>
       /\ LayoutExecutionDir(last.eid) \in storage.dirs
  /\ (last.op = "get_stateful_working_directory" /\ ~last.raised) =>
       last.result \in storage.dirs

\* Both calls have returned, each one having had its directory to make.
C11_Witness ==
  /\ last.op = "get_executor_output_uri"
  /\ ~last.raised
  /\ ~Exists(pre, dirname(last.result))
  /\ stateful # {}
  /\ \E dir \in stateful : dir \in storage.dirs

\* C12: a generate_output_artifacts call, for every execution identifier and
\* whatever the storage holds, leaves the storage (directories, files,
\* contents) and the resolver's fields as they were.
C12_NoSideEffect ==
  [][last'.op = "generate_output_artifacts" => (storage' = storage /\ self' = self)]_vars

\* The call was made with directories and written files in storage.
C12_Witness ==
  /\ last.op = "generate_output_artifacts"
  /\ storage.dirs # {}
  /\ \E f \in DOMAIN storage.files : storage.files[f] = "data"
  /\ storage = pre

\* The artifacts the resolver returned for the attempts other than the last
\* call's.
OtherArtifacts ==
  UNION { UNION { Artifacts(d) : d \in returned[e] } : e \in DOMAIN returned \ {last.eid} }

\* C13 as stated: once remove_output_dirs has removed the object at a uri, no
\* later make_output_dirs brings an object back at that uri; here the
\* make_output_dirs that directly follows the removal, on the same output dict.
C13_NeverBackAsStated ==
  (last.op = "make_output_dirs" /\ last.after = "remove") =>
    \A i \in 1..Len(LastArtifacts) : ~Exists(storage, LastArtifacts[i].uri)

\* C13 amended: once remove_output_dirs has removed the objects of an attempt,
\* a make_output_dirs on the output dict of another execution identifier
\* brings none of them back (it changes nothing at another attempt's uris),
\* while a make_output_dirs on the same output dict that returns normally
\* makes an object at every one of its uris again.
C13_BackOnlyForSameId ==
  last.op = "make_output_dirs" =>
    /\ \A a \in OtherArtifacts : At(storage, a) = At(pre, a)
    /\ last.after = "remove_other" => \A a \in OtherArtifacts : NothingAt(storage, a.uri)
    /\ (last.after = "remove" /\ ~last.raised) =>
         \A i \in 1..Len(LastArtifacts) : Exists(storage, LastArtifacts[i].uri)

\* The other attempt's objects were removed by the call before, and this
\* attempt's objects have been made.
C13_Witness ==
  /\ last.op = "make_output_dirs"
  /\ last.after = "remove_other"
  /\ ~last.raised
  /\ OtherArtifacts # {}
  /\ \A i \in 1..Len(LastArtifacts) : Exists(storage, LastArtifacts[i].uri)

\* What storage st holds at and below a uri is still in storage, unaltered.
StillThere(st, a) ==
  /\ At(st, a).dirs \subseteq At(storage, a).dirs
  /\ At(st, a).files \subseteq At(storage, a).files

\* C14: when make_output_dirs returns normally, every value artifact has its
\* parent directory and an empty file at its uri, whatever the file held
\* before; every other artifact has a directory at its uri, and what that
\* directory held before the call is still there.
C14_MadeAsSpecified ==
  (last.op = "make_output_dirs" /\ ~last.raised) =>
    \A i \in 1..Len(LastArtifacts) :
      LET a == LastArtifacts[i]
      IN  IF a.kind = "value"
          THEN /\ dirname(a.uri) \in storage.dirs
               /\ a.uri \in DOMAIN storage.files
               /\ storage.files[a.uri] = ""
          ELSE /\ a.uri \in storage.dirs
               /\ StillThere(pre, a)

\* The call found a written value file and a directory with a part file.
C14_Witness ==
  /\ last.op = "make_output_dirs"
  /\ ~last.raised
  /\ \E i \in 1..Len(LastArtifacts) :
       /\ LastArtifacts[i].kind = "value"
       /\ LastArtifacts[i].uri \in DOMAIN pre.files
       /\ pre.files[LastArtifacts[i].uri] = "data"
  /\ \E i \in 1..Len(LastArtifacts) :
       /\ LastArtifacts[i].kind = "reference"
       /\ At(pre, LastArtifacts[i]).files # {}

----------------------------------------------------------------------------
(* Claims about a run with a retry, under SpecRetry *)

\* What storage st holds at and below a path.
AtPath(st, p) == At(st, [uri |-> p])

\* C15: remove_output_dirs on the output dict of one execution identifier,
\* whether it returns or raises, leaves as they were the objects of every other
\* execution identifier (its artifacts' objects, its execution directory, its
\* executor output record) and the run's stateful working directory with
\* everything in it.
C15_RemovalIsolated ==
  last.op = "remove_output_dirs" =>
    /\ \A a \in OtherArtifacts : At(storage, a) = At(pre, a)
    /\ \A e2 \in DOMAIN returned \ {last.eid} :
         /\ LayoutExecutionDir(e2) \in pre.dirs => LayoutExecutionDir(e2) \in storage.dirs
         /\ AtPath(storage, executor_output_uri(self, e2)) = AtPath(pre, executor_output_uri(self, e2))
    /\ AtPath(storage, LayoutStateful) = AtPath(pre, LayoutStateful)

\* The removal took the first attempt's written objects away while the retry
\* had written objects, an output record and the run's state in storage.
C15_Witness ==
  /\ last.op = "remove_output_dirs"
  /\ ~last.raised
  /\ \E f \in DOMAIN pre.files : f \notin DOMAIN storage.files /\ pre.files[f] = "data"
  /\ \A a \in OtherArtifacts : \E f \in DOMAIN storage.files :
       (f = a.uri \/ Under(a.uri, f)) /\ storage.files[f] = "data"
  /\ OtherArtifacts # {}
  /\ \E e2 \in DOMAIN returned \ {last.eid} : executor_output_uri(self, e2) \in DOMAIN storage.files
  /\ AtPath(storage, LayoutStateful).files # {}

----------------------------------------------------------------------------
(* Claims about the filesystem registry, under SpecRegistry *)

RegisteredClasses(reg) == DOMAIN reg.filesystem_priority
RegisteredSchemes(reg) ==
  UNION { { SUPPORTED_SCHEMES(cls)[i] : i \in 1..Len(SUPPORTED_SCHEMES(cls)) } :
          cls \in RegisteredClasses(reg) }

\* C3: after any sequence of register calls, get_filesystem_for_scheme returns
\* for a registered scheme a registered class that supports it and whose
\* priority number is the lowest among the registered classes supporting it.
C3_LowestPriorityPreferred ==
  (lookup.op = "get_filesystem_for_scheme" /\ lookup.arg \in RegisteredSchemes(registry)) =>
    /\ ~lookup.raised
    /\ lookup.fs \in RegisteredClasses(registry)
    /\ Supports(lookup.fs, lookup.arg)
    /\ \A cls \in RegisteredClasses(registry) :
         Supports(cls, lookup.arg) =>
           registry.filesystem_priority[lookup.fs] <= registry.filesystem_priority[cls]

\* The first index at which '://' occurs in path, 0 when it does not.
MarkIndexes(path) ==
  { i \in 1..Len(path) : i + 2 <= Len(path) /\ SubSeq(path, i, i + 2) = <<":", "/", "/">> }
FirstMark(path) ==
  IF MarkIndexes(path) = {} THEN 0
  ELSE CHOOSE i \in MarkIndexes(path) : \A j \in MarkIndexes(path) : i <= j

\* path begins with <scheme>://, the scheme a non-empty run without separator.
HasSchemePrefix(path) ==
  /\ FirstMark(path) > 1
  /\ \A i \in 1..(FirstMark(path) - 1) : path[i] # Sep
SchemePrefix(path) == SubSeq(path, 1, FirstMark(path) + 2)

\* The scheme is made of lowercase letters and digits.
HasLowerAlnumSchemePrefix(path) ==
  /\ FirstMark(path) > 1
  /\ \A i \in 1..(FirstMark(path) - 1) : path[i] \in LowerAlnum

UnsupportedSchemeReported ==
  /\ lookup.raised
  /\ lookup.message_arg = <<"'">> \o SchemePrefix(lookup.arg) \o <<"'">>
  /\ lookup.fs = "none"
  /\ registry = lookup.before

\* C9 as stated: for every path that begins with <scheme>:// with no class
\* registered for the scheme, get_filesystem_for_path raises the error naming
\* the scheme, returns no filesystem and leaves the registry unchanged, also
\* when the local scheme is registered.
C9_UnsupportedAsStated ==
  (/\ lookup.op = "get_filesystem_for_path"
   /\ HasSchemePrefix(lookup.arg)
   /\ SchemePrefix(lookup.arg) \notin RegisteredSchemes(lookup.before)) =>
    UnsupportedSchemeReported

\* C9 amended: for every path that begins with <scheme>://, the scheme made
\* of lowercase letters and digits, with no class registered for the scheme,
\* get_filesystem_for_path raises the error naming the scheme, returns no
\* filesystem and leaves the registry unchanged, also when the local scheme is
\* registered.
C9_UnsupportedLowerAlnum ==
  (/\ lookup.op = "get_filesystem_for_path"
   /\ HasLowerAlnumSchemePrefix(lookup.arg)
   /\ SchemePrefix(lookup.arg) \notin RegisteredSchemes(lookup.before)) =>
    UnsupportedSchemeReported

C9_Witness ==
  /\ lookup.op = "get_filesystem_for_path"
  /\ lookup.arg = PathS3
  /\ SchemeLocal \in RegisteredSchemes(lookup.before)
  /\ SchemeGs \in RegisteredSchemes(lookup.before)
  /\ lookup.raised

----------------------------------------------------------------------------
(* Claims about the registry called from several threads, under SpecConcurrent *)

\* The registries that running the register calls of the threads in ts one
\* after another, in some order, makes of reg.
RECURSIVE SequentialResults(_, _)
SequentialResults(ts, reg) ==
  IF ts = {} THEN {reg}
  ELSE UNION { SequentialResults(ts \ {t}, register(reg, threads[t].cls, threads[t].priority)) :
               t \in ts }

\* The registrar threads whose call has stored its class's priority.
Registering(cls) ==
  { t \in Registrars : threads[t].cls = cls /\ threads[t].pc \notin {"acquire", "set_priority"} }

\* C17: register calls from several threads are atomic: when all have
\* returned, the two dicts are those of running the calls one after another in
\* some order; and a get_filesystem_for_scheme running alongside them either
\* raises or returns a class a register call was given and that supports the
\* scheme.
C17_RegisterAtomicLookupSafe ==
  /\ (\A t \in Registrars : threads[t].pc = "done") =>
       registry \in SequentialResults(Registrars, FilesystemRegistryInit)
  /\ threads[Reader].pc = "done" =>
       \/ threads[Reader].raised /\ threads[Reader].fs = "none"
       \/ /\ ~threads[Reader].raised
          /\ Registering(threads[Reader].fs) # {}
          /\ Supports(threads[Reader].fs, threads[Reader].scheme)

\* Both registrations, of two classes competing for the looked-up scheme,
\* have returned, and the lookup, begun while one of them held the lock,
\* returned a class.
C17_Witness ==
  /\ \A t \in Registrars \cup {Reader} : threads[t].pc = "done"
  /\ \E a \in Registrars, b \in Registrars :
       /\ threads[a].cls # threads[b].cls
       /\ Supports(threads[a].cls, threads[Reader].scheme)
       /\ Supports(threads[b].cls, threads[Reader].scheme)
       /\ threads[a].priority < threads[b].priority
  /\ threads[Reader].concurrent
  /\ ~threads[Reader].raised
  /\ threads[Reader].fs # "none"

====
